---- MODULE Spec2Model ----
\* Blogify backend: the Blog model with its lifecycle hooks and the BlogDB
\* repository (src/unnamed/part_000), modelled as a state machine over the
\* database tables, the upload directory and the result of the last call.
\*
\* SQL NULL / JS null are written 0 for ids and image paths (auto-increment
\* ids and upload paths start at 1, so 0 is falsy exactly as null is) and
\* <<>> for strings.  Strings are tuples of one-character strings, compared
\* exactly (the alphabet is one case, so the collation does not matter).
\*
\* The database is taken to accept the grouped queries as written (a SELECT
\* list that is not functionally dependent on the GROUP BY column), as it
\* must for the listing calls to return at all.  Of a returned blog the model
\* keeps the blog's own columns and commentCount; the joined author and Like
\* columns are not read by any property.
EXTENDS Integers, Sequences, FiniteSets, TLC

\* ---------------------------------------------------------------- bounds
NumUsers == 2
MaxBlogId == 2
MaxImage == 2
MaxLikeId == 4
NumProcs == 2
MaxRows == 4
MaxTop == 1
MaxReply == 1
MaxOffset == 2
MaxLimit == 2

Users == 1..NumUsers
BlogIds == 1..MaxBlogId
Procs == 1..NumProcs
Titles == {<<"a">>, <<"a", "b">>}
Contents == {<<"c">>}
Keywords == {<<"a">>, <<"b">>, <<"a", "b">>, <<"_">>}

VARIABLES users, blogs, likes, comments, files, fileCalls, nextId, nextImage,
          nextLikeId, last, pc, loc

vars == <<users, blogs, likes, comments, files, fileCalls, nextId, nextImage,
          nextLikeId, last, pc, loc>>

tables == <<users, blogs, likes, comments>>

\* ------------------------------------------------------- rows and results
NullId == 0
NullImage == 0

\* A Blog row as the repository returns it (commentCount is the computed
\* attribute of the read queries; 0 where the query does not select it).
NullBlog == [id |-> NullId, userId |-> NullId, title |-> <<>>, content |-> <<>>,
             coverImage |-> NullImage, commentCount |-> 0]

NullLike == [id |-> NullId, userId |-> NullId, blogId |-> NullId]

NullComment == [id |-> NullId, blogId |-> NullId, parentId |-> NullId]

\* A request body: BlogPostReqDto carries every field, BlogUpdateReqDto a
\* subset of them (a partial update).
NoDto == [hasTitle |-> FALSE, title |-> <<>>, hasContent |-> FALSE, content |-> <<>>,
          hasCover |-> FALSE, coverImage |-> NullImage]

\* What the caller of a repository method observes.
NoCall == [op |-> "none", userId |-> NullId, blogId |-> NullId, keyword |-> <<>>,
           offset |-> 0, limit |-> 0, threw |-> "none", ret |-> "undefined",
           blog |-> NullBlog, pageCount |-> 0, blogs |-> <<>>, dto |-> NoDto]

Truthy(x) == x # 0

BlogIdsOf(bs) == {b.id : b \in bs}

BlogRow(bs, id) == CHOOSE b \in bs : b.id = id

Entity(b) == [id |-> b.id, userId |-> b.userId, title |-> b.title,
              content |-> b.content, coverImage |-> b.coverImage,
              commentCount |-> 0]

\* -------------------------------------------------- upload directory
\* commonUtil.deleteUploadedFile(path): removes the file and is recorded as
\* one file-deletion call of the running operation.
deleteUploadedFile(st, path) ==
    [files |-> st.files \ {path}, calls |-> Append(st.calls, path)]

\* Blog.afterUpdate hook: st is <<files, calls>> before the hook.
afterUpdate(st, previousBlog, blog) ==
    IF Truthy(previousBlog.coverImage) /\ previousBlog.coverImage # blog.coverImage
    THEN deleteUploadedFile(st, previousBlog.coverImage)
    ELSE st

\* Blog.afterDestroy hook.
afterDestroy(st, blog) ==
    IF Truthy(blog.coverImage) THEN deleteUploadedFile(st, blog.coverImage) ELSE st

\* ------------------------------------------------------------ identifiers
\* The bindings an unqualified identifier can resolve to inside a BlogDB
\* method: the module's imports and its two declarations.  Methods of the
\* class are reachable only through `this`.
ModuleScope == {"Op", "Sequelize", "Blog", "BlogPostReqDto", "BlogUpdateReqDto",
                "Comment", "Like", "User", "BlogDB", "blogDB"}

Resolves(name) == name \in ModuleScope

\* ------------------------------------------------------------ read queries
\* Op.substring: the keyword is wrapped as '%keyword%' and handed to SQL LIKE
\* with the quoting of a string literal only; LIKE reads % as any run of
\* characters and _ as any one character.
SubstringPattern(keyword) == <<"%">> \o keyword \o <<"%">>

RECURSIVE SqlLike(_, _)
SqlLike(s, p) ==
    IF p = <<>> THEN s = <<>>
    ELSE IF Head(p) = "%"
         THEN SqlLike(s, Tail(p)) \/ (s # <<>> /\ SqlLike(Tail(s), p))
         ELSE /\ s # <<>>
              /\ (Head(p) = "_" \/ Head(p) = Head(s))
              /\ SqlLike(Tail(s), Tail(p))

\* LEFT OUTER JOIN likes ON blog.id = likes.blogId
LikeSide(b, ls) ==
    LET m == {l \in ls : l.blogId = b.id} IN IF m = {} THEN {NullLike} ELSE m

\* LEFT OUTER JOIN comments ON blog.id = comments.blogId AND comments.parentId IS NULL
CommentSide(b, cs) ==
    LET m == {c \in cs : c.blogId = b.id /\ c.parentId = NullId}
    IN  IF m = {} THEN {NullComment} ELSE m

\* The joined rows of the blogs bs (subQuery: false: one flat join).
JoinRows(bs, ls, cs) ==
    UNION {{[blog |-> b, like |-> l, comment |-> c] :
              l \in LikeSide(b, ls), c \in CommentSide(b, cs)} : b \in bs}

\* COUNT(comments.id) over a set of joined rows: the rows whose comments.id
\* is not NULL.
CountCommentsId(rows) == Cardinality({r \in rows : r.comment.id # NullId})

\* One output row of GROUP BY Blog.id.
GroupRow(b, ls, cs) ==
    [Entity(b) EXCEPT !.commentCount = CountCommentsId(JoinRows({b}, ls, cs))]

\* The count query of findAndCountAll with `group`: one entry per group, a
\* group being the joined rows that share Blog.id.
CountUngrouped(bs, ls, cs) == {{r} : r \in JoinRows(bs, ls, cs)}

CountGroups(bs, ls, cs) == {JoinRows({b}, ls, cs) : b \in bs}

Perms(S) ==
    {f \in [1..Cardinality(S) -> S] :
        \A i, j \in 1..Cardinality(S) : i # j => f[i] # f[j]}

Min(a, b) == IF a < b THEN a ELSE b

\* Math.ceil(n / d) for n >= 0, d >= 1
Ceil(n, d) == (n + d - 1) \div d

\* Blog.findAndCountAll({where, subQuery: false, group: ["Blog.id"], offset,
\* limit, ...}): bs are the rows passing `where`, ord the order in which the
\* database emits the groups (no ORDER BY is given).
findAndCountAll(bs, ls, cs, ord, offset, limit) ==
    LET n == Cardinality(bs)
        k == IF offset >= n THEN 0 ELSE Min(limit, n - offset)
    IN  [count |-> CountGroups(bs, ls, cs),
         rows |-> [i \in 1..k |-> GroupRow(BlogRow(bs, ord[offset + i]), ls, cs)]]

Page(op, res, limit) ==
    [NoCall EXCEPT !.op = op, !.limit = limit, !.ret = "object",
                   !.pageCount = Ceil(Cardinality(res.count), limit),
                   !.blogs = res.rows]

\* Blog.findByPk(blogId, {attributes: [..., COUNT(comments.id)], include}):
\* an aggregate without GROUP BY yields exactly one row, whose plain columns
\* are NULL when no joined row passes WHERE blog.id = blogId.
findByPk(bs, ls, cs, blogId) ==
    LET m == {b \in bs : b.id = blogId}
    IN  IF m = {} THEN NullBlog
        ELSE GroupRow(BlogRow(bs, blogId), ls, cs)

\* BlogDB.getBlogById: the returned entity, NullBlog standing for null.
getBlogByIdUnguarded(bs, ls, cs, blogId) ==
    LET blog == findByPk(bs, ls, cs, blogId)
    IN  [found |-> TRUE, blog |-> blog]

getBlogById(bs, ls, cs, blogId) ==
    LET blog == findByPk(bs, ls, cs, blogId)
    IN  IF ~Truthy(blog.id) THEN [found |-> FALSE, blog |-> NullBlog]
        ELSE [found |-> TRUE, blog |-> blog]

\* -------------------------------------------------------------- Blog rows
\* validate: { notEmpty: true } on title and content.
Valid(title, content) == title # <<>> /\ content # <<>>

\* ON DELETE CASCADE of the rows that belong to the blogs gone / the user gone.
CascadeLikes(ls, goneBlogs, goneUsers) ==
    {l \in ls : l.blogId \notin goneBlogs /\ l.userId \notin goneUsers}

CascadeComments(cs, goneBlogs) == {c \in cs : c.blogId \notin goneBlogs}

\* blog.update(dto): the fields present in dto overwrite the row's.
Updated(b, dto) ==
    [b EXCEPT !.title = IF dto.hasTitle THEN dto.title ELSE @,
              !.content = IF dto.hasContent THEN dto.content ELSE @,
              !.coverImage = IF dto.hasCover THEN dto.coverImage ELSE @]

\* ------------------------------------------------------------- Like rows
\* Like.findOne({where: {userId, blogId}}): the rows it may return.
FoundSet(ls, u, b) ==
    LET m == {l \in ls : l.userId = u /\ l.blogId = b}
    IN  IF m = {} THEN {NullLike} ELSE m

\* INSERT INTO likes: the table carries no unique index over (userId, blogId),
\* so the insert of a row with a fresh id always succeeds.
InsertLike(ls, new) == ls \cup {new}

\* Like.findOrCreate once its find has returned `found`.
findOrCreate(ls, found, id, u, b) ==
    IF found # NullLike
    THEN [likes |-> ls, like |-> found, created |-> FALSE]
    ELSE LET new == [id |-> id, userId |-> u, blogId |-> b]
         IN  [likes |-> InsertLike(ls, new), like |-> new, created |-> TRUE]

\* like.destroy(): DELETE ... WHERE id = like.id
destroyLike(ls, like) == {l \in ls : l.id # like.id}

\* BlogDB.updateBlogLike run without interruption.
updateBlogLikeKeep(ls, found, id, u, b) ==
    LET r == findOrCreate(ls, found, id, u, b)
    IN  [likes |-> r.likes, created |-> r.created]

updateBlogLikeRun(ls, found, id, u, b) ==
    LET r == findOrCreate(ls, found, id, u, b)
    IN  [likes |-> IF ~r.created /\ r.like # NullLike
                   THEN destroyLike(r.likes, r.like) ELSE r.likes,
         created |-> r.created]

Bool(x) == IF x THEN "true" ELSE "false"

\* ------------------------------------------------------------------ Init
IdleLoc == [userId |-> NullId, blogId |-> NullId, like |-> NullLike, created |-> FALSE]

Init ==
    /\ users = Users
    /\ blogs = {}
    /\ likes = {}
    /\ comments = {}
    /\ files = {}
    /\ fileCalls = <<>>
    /\ nextId = 1
    /\ nextImage = 1
    /\ nextLikeId = 1
    /\ last = NoCall
    /\ pc = [p \in Procs |-> "idle"]
    /\ loc = [p \in Procs |-> IdleLoc]

\* ------------------------------------------------- repository: write side
\* BlogDB.createBlog(userId, dto).  The cover image named by the dto was put
\* in the upload directory by the upload step of the same request.
createBlog(userId, dto) ==
    /\ userId \in users
    /\ nextId <= MaxBlogId
    /\ dto.hasCover => (dto.coverImage = nextImage /\ nextImage <= MaxImage)
    /\ IF ~Valid(dto.title, dto.content)
       THEN /\ last' = [NoCall EXCEPT !.op = "createBlog", !.userId = userId,
                                      !.dto = dto, !.threw = "ValidationError"]
            /\ UNCHANGED <<blogs, files, nextId, nextImage>>
       ELSE LET b == [id |-> nextId, userId |-> userId, title |-> dto.title,
                      content |-> dto.content, coverImage |-> dto.coverImage]
            IN  /\ blogs' = blogs \cup {b}
                /\ files' = IF dto.hasCover THEN files \cup {dto.coverImage} ELSE files
                /\ nextId' = nextId + 1
                /\ nextImage' = IF dto.hasCover THEN nextImage + 1 ELSE nextImage
                /\ last' = [NoCall EXCEPT !.op = "createBlog", !.userId = userId,
                                          !.dto = dto, !.ret = "object",
                                          !.blog = Entity(b)]
    /\ fileCalls' = <<>>
    /\ UNCHANGED <<users, likes, comments, nextLikeId, pc, loc>>

\* BlogDB.updateBlog(blogId, dto)
updateBlog(blogId, dto) ==
    /\ dto.hasCover => (dto.coverImage = nextImage /\ nextImage <= MaxImage)
    /\ IF ~Resolves("getBlogById")
       THEN /\ last' = [NoCall EXCEPT !.op = "updateBlog", !.blogId = blogId,
                                      !.dto = dto, !.threw = "ReferenceError"]
            /\ fileCalls' = <<>>
            /\ UNCHANGED <<blogs, files, nextImage>>
       ELSE LET r == getBlogById(blogs, likes, comments, blogId)
            IN  IF ~r.found
                THEN /\ last' = [NoCall EXCEPT !.op = "updateBlog", !.blogId = blogId,
                                               !.dto = dto, !.ret = "null"]
                     /\ fileCalls' = <<>>
                     /\ UNCHANGED <<blogs, files, nextImage>>
                ELSE IF ~Valid(Updated(r.blog, dto).title, Updated(r.blog, dto).content)
                THEN /\ last' = [NoCall EXCEPT !.op = "updateBlog", !.blogId = blogId,
                                               !.dto = dto, !.threw = "ValidationError"]
                     /\ fileCalls' = <<>>
                     /\ UNCHANGED <<blogs, files, nextImage>>
                ELSE LET old == BlogRow(blogs, blogId)
                         new == Updated(old, dto)
                         up == IF dto.hasCover THEN files \cup {dto.coverImage} ELSE files
                         st == afterUpdate([files |-> up, calls |-> <<>>], old, new)
                     IN  /\ blogs' = (blogs \ {old}) \cup {new}
                         /\ files' = st.files
                         /\ fileCalls' = st.calls
                         /\ nextImage' = IF dto.hasCover THEN nextImage + 1 ELSE nextImage
                         /\ last' = [NoCall EXCEPT !.op = "updateBlog", !.blogId = blogId,
                                                   !.dto = dto, !.ret = "object",
                                                   !.blog = Updated(r.blog, dto)]
    /\ UNCHANGED <<users, likes, comments, nextId, nextLikeId, pc, loc>>

\* BlogDB.deleteBlog(blogId)
deleteBlog(blogId) ==
    /\ IF ~Resolves("getBlogById")
       THEN /\ last' = [NoCall EXCEPT !.op = "deleteBlog", !.blogId = blogId,
                                      !.threw = "ReferenceError"]
            /\ fileCalls' = <<>>
            /\ UNCHANGED <<blogs, likes, comments, files>>
       ELSE LET r == getBlogById(blogs, likes, comments, blogId)
            IN  IF ~r.found
                THEN /\ last' = [NoCall EXCEPT !.op = "deleteBlog", !.blogId = blogId,
                                               !.ret = "false"]
                     /\ fileCalls' = <<>>
                     /\ UNCHANGED <<blogs, likes, comments, files>>
                ELSE LET old == BlogRow(blogs, blogId)
                         st == afterDestroy([files |-> files, calls |-> <<>>], old)
                     IN  /\ blogs' = blogs \ {old}
                         /\ likes' = CascadeLikes(likes, {blogId}, {})
                         /\ comments' = CascadeComments(comments, {blogId})
                         /\ files' = st.files
                         /\ fileCalls' = st.calls
                         /\ last' = [NoCall EXCEPT !.op = "deleteBlog", !.blogId = blogId,
                                                   !.ret = "true"]
    /\ UNCHANGED <<users, nextId, nextImage, nextLikeId, pc, loc>>

\* Deleting a User: User.hasMany(Blog, {onDelete: "CASCADE"}) without
\* `hooks: true` leaves the cascade to the database, which removes the rows
\* without running Blog.afterDestroy.
deleteUser(userId) ==
    /\ userId \in users
    /\ LET gone == {b \in blogs : b.userId = userId}
       IN  /\ users' = users \ {userId}
           /\ blogs' = blogs \ gone
           /\ likes' = CascadeLikes(likes, BlogIdsOf(gone), {userId})
           /\ comments' = CascadeComments(comments, BlogIdsOf(gone))
    /\ fileCalls' = <<>>
    /\ last' = [NoCall EXCEPT !.op = "deleteUser", !.userId = userId, !.ret = "true"]
    /\ UNCHANGED <<files, nextId, nextImage, nextLikeId, pc, loc>>

\* BlogDB.updateBlogLike(userId, blogId), one request at a time.
updateBlogLike(userId, blogId) ==
    /\ userId \in users
    /\ blogId \in BlogIdsOf(blogs)
    /\ \E found \in FoundSet(likes, userId, blogId) :
         LET r == updateBlogLikeRun(likes, found, nextLikeId, userId, blogId)
         IN  /\ r.created => nextLikeId <= MaxLikeId
             /\ likes' = r.likes
             /\ nextLikeId' = IF r.created THEN nextLikeId + 1 ELSE nextLikeId
             /\ last' = [NoCall EXCEPT !.op = "updateBlogLike", !.userId = userId,
                                       !.blogId = blogId, !.ret = Bool(r.created)]
    /\ fileCalls' = <<>>
    /\ UNCHANGED <<users, blogs, comments, files, nextId, nextImage, pc, loc>>

PostDtos ==
    {[hasTitle |-> TRUE, title |-> t, hasContent |-> TRUE, content |-> c,
      hasCover |-> h, coverImage |-> IF h THEN nextImage ELSE NullImage] :
        t \in Titles \cup {<<>>}, c \in Contents, h \in BOOLEAN}

UpdateDtos ==
    {[hasTitle |-> ht, title |-> IF ht THEN t ELSE <<>>, hasContent |-> FALSE,
      content |-> <<>>, hasCover |-> h,
      coverImage |-> IF h THEN nextImage ELSE NullImage] :
        ht \in BOOLEAN, t \in Titles, h \in BOOLEAN}

Next ==
    \/ \E u \in Users, dto \in PostDtos : createBlog(u, dto)
    \/ \E b \in BlogIds, dto \in UpdateDtos : updateBlog(b, dto)
    \/ \E b \in BlogIds : deleteBlog(b)
    \/ \E u \in Users : deleteUser(u)
    \/ \E u \in Users, b \in BlogIds : updateBlogLike(u, b)

Spec == Init /\ [][Next]_vars

\* -------------------------------------------------- repository: read side
\* BlogDB.getBlogById(blogId), called on the repository object.
getBlogByIdCall(blogId) ==
    /\ LET r == getBlogById(blogs, likes, comments, blogId)
       IN  last' = [NoCall EXCEPT !.op = "getBlogById", !.blogId = blogId,
                                  !.ret = IF r.found THEN "object" ELSE "null",
                                  !.blog = r.blog]
    /\ UNCHANGED <<users, blogs, likes, comments, files, fileCalls, nextId,
                   nextImage, nextLikeId, pc, loc>>

\* BlogDB.getBlogs(offset, limit)
getBlogs(offset, limit) ==
    /\ \E ord \in Perms(BlogIdsOf(blogs)) :
         last' = [Page("getBlogs",
                       findAndCountAll(blogs, likes, comments, ord, offset, limit),
                       limit) EXCEPT !.offset = offset]
    /\ UNCHANGED <<users, blogs, likes, comments, files, fileCalls, nextId,
                   nextImage, nextLikeId, pc, loc>>

\* BlogDB.getUserBlogs(userId, offset, limit): where: { userId }
getUserBlogs(userId, offset, limit) ==
    /\ LET bs == {b \in blogs : b.userId = userId}
       IN  \E ord \in Perms(BlogIdsOf(bs)) :
             last' = [Page("getUserBlogs",
                           findAndCountAll(bs, likes, comments, ord, offset, limit),
                           limit) EXCEPT !.offset = offset, !.userId = userId]
    /\ UNCHANGED <<users, blogs, likes, comments, files, fileCalls, nextId,
                   nextImage, nextLikeId, pc, loc>>

\* BlogDB.searchBlogByTitle(keyword, offset, limit):
\* where: { title: { [Op.substring]: keyword } }
searchBlogByTitle(keyword, offset, limit) ==
    /\ LET bs == {b \in blogs : SqlLike(b.title, SubstringPattern(keyword))}
       IN  \E ord \in Perms(BlogIdsOf(bs)) :
             last' = [Page("searchBlogByTitle",
                           findAndCountAll(bs, likes, comments, ord, offset, limit),
                           limit) EXCEPT !.offset = offset, !.keyword = keyword]
    /\ UNCHANGED <<users, blogs, likes, comments, files, fileCalls, nextId,
                   nextImage, nextLikeId, pc, loc>>

RECURSIVE SumOver(_, _)
SumOver(f, S) ==
    IF S = {} THEN 0
    ELSE LET x == CHOOSE y \in S : TRUE IN f[x] + SumOver(f, S \ {x})

\* A database snapshot: blogs with their owner and title, L[b] users liking
\* blog b, T[b] top-level comments and R[b] replies (to its first comment).
Snapshot(ids, owner, title, L, T, R) ==
    [blogs |-> {[id |-> b, userId |-> owner[b], title |-> title[b],
                 content |-> <<"c">>, coverImage |-> NullImage] : b \in ids},
     likes |-> UNION {{[id |-> (b - 1) * NumUsers + u, userId |-> u, blogId |-> b] :
                          u \in 1..L[b]} : b \in ids},
     comments |-> UNION {{[id |-> (b - 1) * (MaxTop + MaxReply) + i, blogId |-> b,
                           parentId |-> IF i <= T[b] THEN NullId
                                        ELSE (b - 1) * (MaxTop + MaxReply) + 1] :
                             i \in (1..T[b]) \cup ((MaxTop + 1)..(MaxTop + R[b]))} :
                         b \in ids}]

InitQuery ==
    /\ users = Users
    /\ \E ids \in SUBSET BlogIds :
         \E owner \in [ids -> Users], title \in [ids -> Titles],
            L \in [ids -> 0..NumUsers], T \in [ids -> 0..MaxTop],
            R \in [ids -> 0..MaxReply] :
           /\ \A b \in ids : R[b] > 0 => T[b] > 0
           /\ Cardinality(ids) + SumOver(L, ids) + SumOver(T, ids)
                + SumOver(R, ids) <= MaxRows
           /\ LET s == Snapshot(ids, owner, title, L, T, R)
              IN  /\ blogs = s.blogs
                  /\ likes = s.likes
                  /\ comments = s.comments
    /\ files = {}
    /\ fileCalls = <<>>
    /\ nextId = MaxBlogId + 1
    /\ nextImage = 1
    /\ nextLikeId = MaxBlogId * NumUsers + 1
    /\ last = NoCall
    /\ pc = [p \in Procs |-> "idle"]
    /\ loc = [p \in Procs |-> IdleLoc]

\* The read calls change no table, so a behaviour applies one call to the
\* snapshot it starts from.
NextQuery ==
    \/ \E b \in 1..(MaxBlogId + 1) : last = NoCall /\ getBlogByIdCall(b)
    \/ \E o \in 0..MaxOffset, l \in 1..MaxLimit : last = NoCall /\ getBlogs(o, l)
    \/ \E u \in Users, o \in 0..MaxOffset, l \in 1..MaxLimit :
         last = NoCall /\ getUserBlogs(u, o, l)
    \/ \E k \in Keywords, o \in 0..MaxOffset, l \in 1..MaxLimit :
         last = NoCall /\ searchBlogByTitle(k, o, l)

SpecQuery == InitQuery /\ [][NextQuery]_vars

\* --------------------------------------- updateBlogLike, concurrent requests
\* Each request suspends at every await: after the find of findOrCreate,
\* after its create, and at like.destroy().
LikeStart(p, userId, blogId) ==
    /\ pc[p] = "idle"
    /\ userId \in users
    /\ blogId \in BlogIdsOf(blogs)
    /\ pc' = [pc EXCEPT ![p] = "find"]
    /\ loc' = [loc EXCEPT ![p] = [IdleLoc EXCEPT !.userId = userId, !.blogId = blogId]]
    /\ UNCHANGED <<users, blogs, likes, comments, files, fileCalls, nextId,
                   nextImage, nextLikeId, last>>

LikeFind(p) ==
    /\ pc[p] = "find"
    /\ \E found \in FoundSet(likes, loc[p].userId, loc[p].blogId) :
         /\ loc' = [loc EXCEPT ![p].like = found]
         /\ pc' = [pc EXCEPT ![p] = IF found = NullLike THEN "create" ELSE "finish"]
    /\ UNCHANGED <<users, blogs, likes, comments, files, fileCalls, nextId,
                   nextImage, nextLikeId, last>>

LikeCreate(p) ==
    /\ pc[p] = "create"
    /\ nextLikeId <= MaxLikeId
    /\ LET r == findOrCreate(likes, loc[p].like, nextLikeId, loc[p].userId,
                             loc[p].blogId)
       IN  /\ likes' = r.likes
           /\ loc' = [loc EXCEPT ![p].like = r.like, ![p].created = r.created]
    /\ nextLikeId' = nextLikeId + 1
    /\ pc' = [pc EXCEPT ![p] = "finish"]
    /\ UNCHANGED <<users, blogs, comments, files, fileCalls, nextId, nextImage, last>>

LikeFinish(p) ==
    /\ pc[p] = "finish"
    /\ likes' = IF ~loc[p].created /\ loc[p].like # NullLike
                THEN destroyLike(likes, loc[p].like) ELSE likes
    /\ last' = [NoCall EXCEPT !.op = "updateBlogLike", !.userId = loc[p].userId,
                              !.blogId = loc[p].blogId, !.ret = Bool(loc[p].created)]
    /\ pc' = [pc EXCEPT ![p] = "idle"]
    /\ loc' = [loc EXCEPT ![p] = IdleLoc]
    /\ UNCHANGED <<users, blogs, comments, files, fileCalls, nextId, nextImage,
                   nextLikeId>>

\* The database the concurrent requests run against: every user owns one blog.
InitConc ==
    /\ users = Users
    /\ blogs = {[id |-> u, userId |-> u, title |-> <<"a">>, content |-> <<"c">>,
                 coverImage |-> NullImage] : u \in Users}
    /\ likes = {}
    /\ comments = {}
    /\ files = {}
    /\ fileCalls = <<>>
    /\ nextId = NumUsers + 1
    /\ nextImage = 1
    /\ nextLikeId = 1
    /\ last = NoCall
    /\ pc = [p \in Procs |-> "idle"]
    /\ loc = [p \in Procs |-> IdleLoc]

NextConc ==
    \/ \E p \in Procs, u \in Users, b \in 1..NumUsers : LikeStart(p, u, b)
    \/ \E p \in Procs : LikeFind(p)
    \/ \E p \in Procs : LikeCreate(p)
    \/ \E p \in Procs : LikeFinish(p)

SpecConc == InitConc /\ [][NextConc]_vars

\* The same database with one request at a time.
NextLike ==
    \/ \E u \in Users, b \in 1..NumUsers : updateBlogLike(u, b)
    \/ \E u \in Users : deleteUser(u)

SpecLike == InitConc /\ [][NextLike]_vars

\* ================================================================ properties
HasLike(ls, u, b) == \E l \in ls : l.userId = u /\ l.blogId = b

ListOps == {"getBlogs", "getUserBlogs", "searchBlogByTitle"}

\* k is a contiguous substring of s
Contains(s, k) ==
    \E i \in 0..Len(s) : i + Len(k) <= Len(s) /\ SubSeq(s, i + 1, i + Len(k)) = k

TopLevelCount(cs, id) ==
    Cardinality({c \in cs : c.blogId = id /\ c.parentId = NullId})

\* the least k with k * d >= n
CeilDiv(n, d) == CHOOSE k \in 0..n : k * d >= n /\ \A j \in 0..n : j * d >= n => k <= j

\* the blogs a listing call selects from
Matching(c) ==
    IF c.op = "getUserBlogs" THEN {b \in blogs : b.userId = c.userId}
    ELSE IF c.op = "searchBlogByTitle"
         THEN {b \in blogs : SqlLike(b.title, SubstringPattern(c.keyword))}
         ELSE blogs

\* C1: a call of updateBlogLike(u, b) that runs alone returns true exactly
\* when no Like row for (u, b) existed before it, afterwards the row exists
\* exactly when it returned true, and a call that follows a call for the same
\* pair that returned true returns false and leaves no row for the pair.
C1_ToggleStep ==
    last'.op = "updateBlogLike" =>
        LET u == last'.userId
            b == last'.blogId
        IN  /\ (last'.ret = "true") <=> ~HasLike(likes, u, b)
            /\ HasLike(likes', u, b) <=> (last'.ret = "true")
            /\ (last.op = "updateBlogLike" /\ last.userId = u /\ last.blogId = b
                  /\ last.ret = "true")
                 => (last'.ret = "false" /\ ~HasLike(likes', u, b))

C1_LikeToggle == [][C1_ToggleStep]_vars

C1_Witness ==
    /\ last.op = "updateBlogLike"
    /\ last.ret = "false"
    /\ ~HasLike(likes, last.userId, last.blogId)

\* C2: in every state reached by interleaved updateBlogLike requests the Like
\* table holds at most one row per (userId, blogId).
C2_AtMostOneLikePerPair ==
    \A u \in Users, b \in BlogIds :
        Cardinality({l \in likes : l.userId = u /\ l.blogId = b}) <= 1

\* C3: a listing call over N selected blogs returns pageCount = ceil(N / limit)
\* and at most limit blogs, each selected blog at most once.
C3_Pagination ==
    last.op \in ListOps =>
        LET N == Cardinality(Matching(last))
        IN  /\ last.pageCount = CeilDiv(N, last.limit)
            /\ Len(last.blogs) <= last.limit
            /\ \A i, j \in 1..Len(last.blogs) :
                 i # j => last.blogs[i].id # last.blogs[j].id
            /\ \A i \in 1..Len(last.blogs) :
                 last.blogs[i].id \in BlogIdsOf(Matching(last))

C3_Witness ==
    /\ last.op = "getBlogs"
    /\ last.limit = 1
    /\ last.pageCount = 2
    /\ Len(last.blogs) = 1
    /\ \E b \in blogs : Cardinality({l \in likes : l.blogId = b.id}) >= 2

\* C4: every blog a read call returns reports as commentCount the number of
\* its comments whose parentId is null.
C4_CommentCount ==
    /\ (last.op = "getBlogById" /\ last.ret = "object")
         => last.blog.commentCount = TopLevelCount(comments, last.blog.id)
    /\ last.op \in ListOps
         => \A i \in 1..Len(last.blogs) :
              last.blogs[i].commentCount = TopLevelCount(comments, last.blogs[i].id)

\* C5: deleteBlog of an existing blog returns true and removes the row, with
\* one file-deletion call for a non-null coverImage and none for a null one.
C5_DeleteStep ==
    (last'.op = "deleteBlog" /\ last'.blogId \in BlogIdsOf(blogs)) =>
        LET old == BlogRow(blogs, last'.blogId)
        IN  /\ last'.threw = "none"
            /\ last'.ret = "true"
            /\ last'.blogId \notin BlogIdsOf(blogs')
            /\ fileCalls' = IF old.coverImage # NullImage THEN <<old.coverImage>>
                            ELSE <<>>

C5_DeleteBlog == [][C5_DeleteStep]_vars

\* C6: updateBlog of an existing blog applies the partial update and returns
\* the updated entity; the previous cover image is deleted exactly when it was
\* non-null and the update changed it, and the new one never.
C6_UpdateStep ==
    (last'.op = "updateBlog" /\ last'.blogId \in BlogIdsOf(blogs)) =>
        LET old == BlogRow(blogs, last'.blogId)
            dto == last'.dto
            title == IF dto.hasTitle THEN dto.title ELSE old.title
            cover == IF dto.hasCover THEN dto.coverImage ELSE old.coverImage
        IN  /\ last'.threw = "none"
            /\ last'.ret = "object"
            /\ last'.blog.id = old.id
            /\ last'.blog.title = title
            /\ last'.blog.coverImage = cover
            /\ \E b \in blogs' : b.id = old.id /\ b.title = title /\ b.coverImage = cover
            /\ fileCalls' = IF old.coverImage # NullImage /\ old.coverImage # cover
                            THEN <<old.coverImage>> ELSE <<>>

C6_UpdateBlog == [][C6_UpdateStep]_vars

\* C7: for an id without a Blog row updateBlog returns null and deleteBlog
\* returns false, without raising, changing a row or deleting a file.
C7_NotFoundStep ==
    (last'.op \in {"updateBlog", "deleteBlog"} /\ last'.blogId \notin BlogIdsOf(blogs)) =>
        /\ last'.threw = "none"
        /\ last'.ret = IF last'.op = "updateBlog" THEN "null" ELSE "false"
        /\ blogs' = blogs
        /\ files' = files
        /\ fileCalls' = <<>>

C7_NotFound == [][C7_NotFoundStep]_vars

\* C8: getBlogById returns null when no Blog row has the id (also on an empty
\* table, where the aggregate row has a null id), returns the row's blog when
\* it exists, and changes no table.
C8_GetStep ==
    last'.op = "getBlogById" =>
        /\ IF last'.blogId \in BlogIdsOf(blogs)
           THEN LET row == BlogRow(blogs, last'.blogId)
                IN  /\ last'.ret = "object"
                    /\ last'.blog.id = row.id
                    /\ last'.blog.userId = row.userId
                    /\ last'.blog.title = row.title
                    /\ last'.blog.coverImage = row.coverImage
           ELSE last'.ret = "null"
        /\ last'.threw = "none"
        /\ tables' = tables

C8_GetBlogById == [][C8_GetStep]_vars

C8_Witness ==
    /\ last.op = "getBlogById"
    /\ last.ret = "null"
    /\ blogs = {}

\* C9: every blog searchBlogByTitle returns has a title that contains the
\* keyword as a contiguous substring.
C9_SearchSubstring ==
    last.op = "searchBlogByTitle" =>
        \A i \in 1..Len(last.blogs) : Contains(last.blogs[i].title, last.keyword)

\* C10: every cover-image file on disk is the coverImage of an existing Blog.
C10_NoOrphanFile == files \subseteq {b.coverImage : b \in blogs}

====
